---- MODULE Spec2Model ----
(***************************************************************************)
(* Constrained k-medoids centre placement (src/center_optimizer.cpp):      *)
(* KMedoidsOptimizer::optimize() with filter_candidates(),                 *)
(* initialize_medoids(), the swap local search, calculate_total_cost(),    *)
(* get_distance() and get_assignments().                                   *)
(*                                                                         *)
(* Conventions of the model.                                               *)
(*  - Vectors are 1-based sequences; the code's 0-based positions are      *)
(*    shifted by one (best_medoid = -1, "none", is 0 here).                *)
(*  - Distances are meters, as in the code.  All points lie on one         *)
(*    meridian and Point.lat is counted in kilometres of arc, so the       *)
(*    haversine fallback is exactly 1000 * |lat2 - lat1| meters.           *)
(*  - Doubles are integers: every value of the model is far below 2^53,    *)
(*    where double addition, multiplication and comparison are exact.      *)
(***************************************************************************)
EXTENDS Integers, Sequences, FiniteSets

\* ----------------------------------------------------------------- bounds
\* Number of loaded points in the inputs without a distance table.
NPoints == 4
\* Number of loaded points in the inputs with a distance table.
NTablePoints == 3
\* Largest number of entries of the (sparse) distance table.
MaxTableEntries == 1

\* Input domains of the enumerated inputs.
Ks == {1, 2, 3}
ResourceQuantities == {1, 2}
TableKm == {1, 3}
MinDistancesKm == {0, 2}
\* <<land type, slope>> of a point: eligible, excluded by land type when
\* "water" is excluded, too steep.
ZoneProfiles == {<<"farm", 10>>, <<"water", 10>>, <<"farm", 40>>}

\* ------------------------------------------------------ program constants
\* std::numeric_limits<double>::max(): above every distance and cost here.
DBL_MAX == 2147483647
\* const int max_iterations = 50;
max_iterations == 50
\* main(): double max_slope = (argc > 7) ? std::stod(argv[7]) : 30.0;
DefaultMaxSlope == 30

VARIABLES
    points,               \* std::vector<Point> points
    distance_matrix,      \* distance table: [<<from_id, to_id>> -> meters], partial
    k,                    \* number of centres requested
    min_distance_km,      \* minimum separation, km
    exclude_land_types,   \* excluded land-type labels
    max_slope,            \* slope threshold
    valid_candidates,     \* indices left by filter_candidates()
    pc,                   \* position in optimize() / main()
    best_medoids,         \* current medoid vector (the returned one at the end)
    best_cost,            \* its cost (DBL_MAX: the infeasibility sentinel)
    improved,             \* the round's flag
    iterations,           \* rounds started
    i,                    \* position scanned by the local search
    ci,                   \* cursor into valid_candidates of the inner loop
    init_i,               \* loop counter of initialize_medoids()
    initial_cost,         \* the "Initial cost" optimize() reports
    round_start_cost,     \* best_cost when the current round began
    round_start_medoids,  \* best_medoids when the current round began
    assignments           \* get_assignments() as print_results() uses it

vars == <<points, distance_matrix, k, min_distance_km, exclude_land_types,
          max_slope, valid_candidates, pc, best_medoids, best_cost, improved,
          iterations, i, ci, init_i, initial_cost, round_start_cost,
          round_start_medoids, assignments>>

inputs == <<points, distance_matrix, k, min_distance_km, exclude_land_types,
            max_slope>>

\* ------------------------------------------------------------ pure helpers
Abs(x) == IF x < 0 THEN -x ELSE x

Contains(s, x) == \E n \in 1..Len(s) : s[n] = x

\* haversine_distance() for two points of one meridian, lat in km of arc.
haversine_distance(lat1, lat2) == 1000 * Abs(lat2 - lat1)

\* The Point the fallback's scan ends with for an id (the last match; a
\* default-constructed Point, lat 0, when no point has the id).
LatOfId(id) ==
    LET hits == {n \in 1..Len(points) : points[n].id = id}
    IN  IF hits = {} THEN 0
        ELSE points[CHOOSE n \in hits : \A m \in hits : m <= n].lat

\* get_distance(from_id, to_id): the table entry for exactly (from, to) when
\* present, the haversine fallback otherwise.
get_distance(from_id, to_id) ==
    IF <<from_id, to_id>> \in DOMAIN distance_matrix
    THEN distance_matrix[<<from_id, to_id>>]
    ELSE haversine_distance(LatOfId(from_id), LatOfId(to_id))

\* min_distance_km * 1000
MinSeparation == min_distance_km * 1000

\* ------------------------------------------------------ filter_candidates
\* One point's test in filter_candidates(): not an excluded land type, and
\* slope not above max_slope.
Eligible(n) ==
    /\ points[n].land_type \notin exclude_land_types
    /\ ~(points[n].slope > max_slope)

\* filter_candidates(): the eligible indices, in load order.
filter_candidates ==
    SelectSeq([n \in 1..Len(points) |-> n], Eligible)

\* optimize()'s test `valid_candidates.size() < k` (k >= 1 in every input).
NotEnoughCandidatesOffByOne(cands, kk) == Len(cands) + 1 < kk

NotEnoughCandidates(cands, kk) == Len(cands) < kk

\* ------------------------------------------------- satisfies_min_distance
\* Mutant: rejects a candidate at exactly the minimum separation.
satisfies_min_distance_strict(medoids, new_candidate) ==
    \A n \in 1..Len(medoids) :
        ~(get_distance(points[new_candidate].id, points[medoids[n]].id)
              <= MinSeparation)

\* satisfies_min_distance(medoids, new_candidate): no chosen medoid is closer
\* than the minimum separation, looked up as (new candidate, medoid).
satisfies_min_distance(medoids, new_candidate) ==
    \A n \in 1..Len(medoids) :
        ~(get_distance(points[new_candidate].id, points[medoids[n]].id)
              < MinSeparation)

\* --------------------------------------------------- calculate_total_cost
RECURSIVE ScanMinDist(_, _, _, _)
\* The inner loop of calculate_total_cost(): min_dist after medoids j.. .
ScanMinDist(p, medoids, j, min_dist) ==
    IF j > Len(medoids) THEN min_dist
    ELSE LET dist == get_distance(points[p].id, points[medoids[j]].id)
         IN  ScanMinDist(p, medoids, j + 1,
                         IF dist < min_dist THEN dist ELSE min_dist)

RECURSIVE SumCost(_, _)
\* The outer loop of calculate_total_cost(): total_cost after points 1..n.
SumCost(medoids, n) ==
    IF n = 0 THEN 0
    ELSE SumCost(medoids, n - 1)
         + ScanMinDist(n, medoids, 1, DBL_MAX) * points[n].resource_quantity

RECURSIVE SumUnweighted(_, _)
SumUnweighted(medoids, n) ==
    IF n = 0 THEN 0
    ELSE SumUnweighted(medoids, n - 1) + ScanMinDist(n, medoids, 1, DBL_MAX)

\* Mutant: forgets the resource weight.
calculate_total_cost_unweighted(medoids) == SumUnweighted(medoids, Len(points))

calculate_total_cost(medoids) == SumCost(medoids, Len(points))

\* -------------------------------------------------------- get_assignments
RECURSIVE ScanBestLast(_, _, _, _, _)
ScanBestLast(p, medoids, j, min_dist, best_medoid) ==
    IF j > Len(medoids) THEN best_medoid
    ELSE LET dist == get_distance(points[p].id, points[medoids[j]].id)
         IN  IF dist <= min_dist
             THEN ScanBestLast(p, medoids, j + 1, dist, j)
             ELSE ScanBestLast(p, medoids, j + 1, min_dist, best_medoid)

\* Mutant: `<=` for `<`, the last medoid at the minimum wins.
get_assignments_last(medoids) ==
    [p \in 1..Len(points) |-> ScanBestLast(p, medoids, 1, DBL_MAX, 0)]

RECURSIVE ScanBest(_, _, _, _, _)
\* The inner loop of get_assignments(): best_medoid after medoids j.. .
ScanBest(p, medoids, j, min_dist, best_medoid) ==
    IF j > Len(medoids) THEN best_medoid
    ELSE LET dist == get_distance(points[p].id, points[medoids[j]].id)
         IN  IF dist < min_dist
             THEN ScanBest(p, medoids, j + 1, dist, j)
             ELSE ScanBest(p, medoids, j + 1, min_dist, best_medoid)

get_assignments(medoids) ==
    [p \in 1..Len(points) |-> ScanBest(p, medoids, 1, DBL_MAX, 0)]

\* ----------------------------------------------------- initialize_medoids
\* Mutant: the std::find test on the chosen medoids is dropped.
valid_next_no_find(medoids) ==
    SelectSeq(valid_candidates,
              LAMBDA candidate_idx : satisfies_min_distance(medoids, candidate_idx))

\* valid_next of one pass of the loop: the candidates not chosen yet that
\* satisfy the minimum distance to every chosen medoid, in candidate order.
valid_next(medoids) ==
    SelectSeq(valid_candidates,
              LAMBDA candidate_idx :
                  /\ ~Contains(medoids, candidate_idx)
                  /\ satisfies_min_distance(medoids, candidate_idx))

\* ----------------------------------------------------------- local search
\* Mutant: the gate rejects a pair at exactly the minimum separation.
PairwiseValidStrict(new_medoids) ==
    \A j \in 1..Len(new_medoids) : \A l \in (j + 1)..Len(new_medoids) :
        ~(get_distance(points[new_medoids[j]].id, points[new_medoids[l]].id)
              <= MinSeparation)

\* The feasibility gate of a trial: every pair j < l, looked up as
\* (member j, member l), is at least the minimum separation apart.
PairwiseValid(new_medoids) ==
    \A j \in 1..Len(new_medoids) : \A l \in (j + 1)..Len(new_medoids) :
        ~(get_distance(points[new_medoids[j]].id, points[new_medoids[l]].id)
              < MinSeparation)

\* Mutant: a trial of equal cost is committed too.
ImprovesOrTies(new_cost, cost) == new_cost <= cost

\* if (new_cost < best_cost)
Improves(new_cost, cost) == new_cost < cost

\* Mutant: the loop no longer stops on a round without commit.
LoopContinuesCapOnly == iterations < max_iterations

\* while (improved && iterations < max_iterations)
LoopContinues == improved /\ iterations < max_iterations

\* ------------------------------------------------------------------ inputs
\* Points 1..n of one meridian, one kilometre of arc apart, ids 10, 20, ...
PointId(n) == 10 * n

OrderedPairs ==
    {<<PointId(a), PointId(b)>> : a, b \in 1..NTablePoints} \
        {<<PointId(a), PointId(a)>> : a \in 1..NTablePoints}

\* The sparse tables: any entries (from, to), from # to, up to the bound;
\* load_distances() stores km * 1000.  Nothing makes (a, b) and (b, a) agree.
Tables ==
    UNION {[S -> {km * 1000 : km \in TableKm}] :
               S \in {T \in SUBSET OrderedPairs : Cardinality(T) <= MaxTableEntries}}

EmptyTable == [pr \in {} |-> 0]

MakePoint(n, quantity, land, slope) ==
    [id |-> PointId(n), lat |-> n, resource_quantity |-> quantity,
     land_type |-> land, slope |-> slope]

\* State of the optimizer object before optimize() is called.
Constructed ==
    /\ valid_candidates = <<>>
    /\ pc = "start"
    /\ best_medoids = <<>>
    /\ best_cost = 0
    /\ improved = FALSE
    /\ iterations = 0
    /\ i = 0
    /\ ci = 0
    /\ init_i = 0
    /\ initial_cost = 0
    /\ round_start_cost = 0
    /\ round_start_medoids = <<>>
    /\ assignments = <<>>

\* Inputs with a distance table: every point eligible, unit weights.
InitTables ==
    /\ points = [n \in 1..NTablePoints |-> MakePoint(n, 1, "farm", 10)]
    /\ distance_matrix \in Tables
    /\ exclude_land_types = {"water"}

\* Inputs with resource weights: every point eligible, no table (fallback).
InitWeights ==
    /\ \E q \in [1..NPoints -> ResourceQuantities] :
           points = [n \in 1..NPoints |-> MakePoint(n, q[n], "farm", 10)]
    /\ distance_matrix = EmptyTable
    /\ exclude_land_types = {"water"}

\* Inputs with zone features: land type and slope vary, no table, unit weights.
InitZones ==
    /\ \E zone \in [1..NPoints -> ZoneProfiles] :
           points = [n \in 1..NPoints |-> MakePoint(n, 1, zone[n][1], zone[n][2])]
    /\ distance_matrix = EmptyTable
    /\ exclude_land_types \in {{}, {"water"}}

Init ==
    /\ k \in Ks
    /\ min_distance_km \in MinDistancesKm
    /\ max_slope = DefaultMaxSlope
    /\ \/ InitTables
       \/ InitWeights
       \/ InitZones
    /\ Constructed

\* ------------------------------------------------------------- optimize()
\* filter_candidates(), then the return of the infeasibility sentinel.
OptimizeInfeasible ==
    /\ pc = "start"
    /\ NotEnoughCandidates(filter_candidates, k)
    /\ valid_candidates' = filter_candidates
    /\ best_medoids' = <<>>
    /\ best_cost' = DBL_MAX
    /\ pc' = "infeasible"
    /\ UNCHANGED <<inputs, improved, iterations, i, ci, init_i, initial_cost,
                   round_start_cost, round_start_medoids, assignments>>

\* filter_candidates(), enough candidates: initialize_medoids() is entered.
OptimizeBegin ==
    /\ pc = "start"
    /\ ~NotEnoughCandidates(filter_candidates, k)
    /\ valid_candidates' = filter_candidates
    /\ pc' = "init_first"
    /\ UNCHANGED <<inputs, best_medoids, best_cost, improved, iterations, i, ci,
                   init_i, initial_cost, round_start_cost, round_start_medoids,
                   assignments>>

\* initialize_medoids(): the first medoid, any candidate (the draw); the set
\* stays empty when there is no candidate.
InitFirst ==
    /\ pc = "init_first"
    /\ IF valid_candidates = <<>>
       THEN best_medoids' = <<>>
       ELSE \E first_idx \in 1..Len(valid_candidates) :
                best_medoids' = <<valid_candidates[first_idx]>>
    /\ init_i' = 1
    /\ pc' = "init_loop"
    /\ UNCHANGED <<inputs, valid_candidates, best_cost, improved, iterations, i,
                   ci, initial_cost, round_start_cost, round_start_medoids,
                   assignments>>

\* initialize_medoids(): one pass of the loop that appends a medoid drawn
\* from valid_next.
InitNext ==
    /\ pc = "init_loop"
    /\ init_i < k /\ valid_candidates # <<>>
    /\ valid_next(best_medoids) # <<>>
    /\ \E draw \in 1..Len(valid_next(best_medoids)) :
           best_medoids' = Append(best_medoids, valid_next(best_medoids)[draw])
    /\ init_i' = init_i + 1
    /\ UNCHANGED <<inputs, valid_candidates, pc, best_cost, improved, iterations,
                   i, ci, initial_cost, round_start_cost, round_start_medoids,
                   assignments>>

\* initialize_medoids() returns (loop ended, or valid_next empty: the
\* warning and break); optimize() computes the initial cost.
InitReturn ==
    /\ pc = "init_loop"
    /\ \/ ~(init_i < k /\ valid_candidates # <<>>)
       \/ valid_next(best_medoids) = <<>>
    /\ best_cost' = calculate_total_cost(best_medoids)
    /\ initial_cost' = calculate_total_cost(best_medoids)
    /\ improved' = TRUE
    /\ iterations' = 0
    /\ round_start_cost' = calculate_total_cost(best_medoids)
    /\ round_start_medoids' = best_medoids
    /\ pc' = "loop"
    /\ UNCHANGED <<inputs, valid_candidates, best_medoids, i, ci, init_i,
                   assignments>>

\* The while test holds: a round begins.
RoundBegin ==
    /\ pc = "loop"
    /\ LoopContinues
    /\ improved' = FALSE
    /\ iterations' = iterations + 1
    /\ round_start_cost' = best_cost
    /\ round_start_medoids' = best_medoids
    /\ i' = 1
    /\ ci' = 1
    /\ pc' = IF best_medoids = <<>> \/ valid_candidates = <<>> THEN "loop" ELSE "trial"
    /\ UNCHANGED <<inputs, valid_candidates, best_medoids, best_cost, init_i,
                   initial_cost, assignments>>

\* One pass of the inner loop: position i, candidate valid_candidates[ci].
Trial ==
    /\ pc = "trial"
    /\ LET candidate_idx == valid_candidates[ci]
           new_medoids == [best_medoids EXCEPT ![i] = candidate_idx]
           commit == /\ ~Contains(best_medoids, candidate_idx)
                     /\ PairwiseValid(new_medoids)
                     /\ Improves(calculate_total_cost(new_medoids), best_cost)
       IN  /\ best_medoids' = IF commit THEN new_medoids ELSE best_medoids
           /\ best_cost' = IF commit THEN calculate_total_cost(new_medoids)
                           ELSE best_cost
           /\ improved' = (commit \/ improved)
    /\ IF ci < Len(valid_candidates)
       THEN ci' = ci + 1 /\ i' = i /\ pc' = "trial"
       ELSE IF i < Len(best_medoids)
            THEN ci' = 1 /\ i' = i + 1 /\ pc' = "trial"
            ELSE ci' = ci /\ i' = i /\ pc' = "loop"
    /\ UNCHANGED <<inputs, valid_candidates, iterations, init_i, initial_cost,
                   round_start_cost, round_start_medoids, assignments>>

\* The while test fails: optimize() returns {best_medoids, best_cost}.
OptimizeReturn ==
    /\ pc = "loop"
    /\ ~LoopContinues
    /\ pc' = "returned"
    /\ UNCHANGED <<inputs, valid_candidates, best_medoids, best_cost, improved,
                   iterations, i, ci, init_i, initial_cost, round_start_cost,
                   round_start_medoids, assignments>>

\* ------------------------------------------------------------------ main()
\* print_results(): the assignment of every point.
PrintResults ==
    /\ pc = "returned"
    /\ best_medoids # <<>>
    /\ assignments' = get_assignments(best_medoids)
    /\ pc' = "printed"
    /\ UNCHANGED <<inputs, valid_candidates, best_medoids, best_cost, improved,
                   iterations, i, ci, init_i, initial_cost, round_start_cost,
                   round_start_medoids>>

\* "No valid solution found": optimize() returned an empty medoid vector.
NoSolution ==
    /\ pc \in {"infeasible", "returned"}
    /\ best_medoids = <<>>
    /\ pc' = "no_solution"
    /\ UNCHANGED <<inputs, valid_candidates, best_medoids, best_cost, improved,
                   iterations, i, ci, init_i, initial_cost, round_start_cost,
                   round_start_medoids, assignments>>

Search ==
    \/ OptimizeBegin
    \/ InitFirst
    \/ InitNext
    \/ InitReturn
    \/ RoundBegin
    \/ Trial
    \/ OptimizeReturn
    \/ PrintResults

Next ==
    \/ OptimizeInfeasible
    \/ NoSolution
    \/ Search

Spec == Init /\ [][Next]_vars

\* The run is one sequential unit of work: a step that can be taken is taken.
FairSpec == Spec /\ WF_vars(Next)

\* --------------------------------------------- the end-to-end scenario
\* Points A, B, C, D (indices 1..4) with weights 2, 1, 3, 1 and the full
\* symmetric table AB=10, AC=50, AD=80, BC=40, BD=70, CD=30, self-distance 0.
ScenarioWeights == <<2, 1, 3, 1>>

ScenarioMatrix ==
    << <<0, 10, 50, 80>>,
       <<10, 0, 40, 70>>,
       <<50, 40, 0, 30>>,
       <<80, 70, 30, 0>> >>

InitScenario ==
    /\ points = [n \in 1..4 |-> MakePoint(n, ScenarioWeights[n], "", 0)]
    /\ distance_matrix =
           [pr \in {<<PointId(a), PointId(b)>> : a, b \in 1..4} |->
                ScenarioMatrix[pr[1] \div 10][pr[2] \div 10]]
    /\ k = 2
    /\ min_distance_km = 0
    /\ exclude_land_types = {}
    /\ max_slope = DefaultMaxSlope
    /\ Constructed

SpecScenario == InitScenario /\ [][Search]_vars

\* ------------------------------------------------- vocabulary of the claims
Range(s) == {s[n] : n \in 1..Len(s)}

MedoidSet == Range(best_medoids)

CandidateSet == Range(valid_candidates)

Dist(a, b) == get_distance(points[a].id, points[b].id)

\* Distance from point p to the nearest member of the non-empty set S.
NearestDistance(p, S) ==
    LET ds == {Dist(p, m) : m \in S}
    IN  CHOOSE d \in ds : \A e \in ds : d <= e

RECURSIVE WeightedCostUpTo(_, _)
WeightedCostUpTo(S, n) ==
    IF n = 0 THEN 0
    ELSE WeightedCostUpTo(S, n - 1)
         + points[n].resource_quantity * NearestDistance(n, S)

\* Total cost of a medoid set: sum over every point of weight * distance to
\* the nearest member.
TotalWeightedCost(S) == WeightedCostUpTo(S, Len(points))

\* Every pair of a vector, in position order j < l, meets the separation.
GatePasses(v) ==
    \A j \in 1..Len(v) : \A l \in (j + 1)..Len(v) :
        Dist(v[j], v[l]) >= MinSeparation

\* The state in which initialize_medoids() has just returned.
InitJustReturned == pc = "loop" /\ iterations = 0

\* The state at the end of a round.
RoundJustEnded == pc = "loop" /\ iterations >= 1

\* Some k candidates are pairwise (in both lookup orders) separated.
FeasibleSubsetExists ==
    \E S \in SUBSET CandidateSet :
        /\ Cardinality(S) = k
        /\ \A a, b \in S : a # b => Dist(a, b) >= MinSeparation

\* ------------------------------------------------------------------ claims

\* C1: whenever optimize() returns a non-empty medoid set, every two distinct
\* members a, b are at least the minimum separation apart, as resolved by
\* get_distance(a, b) in the order queried, for every table (symmetric or not).
C1_SeparationInvariant ==
    (pc = "returned" /\ best_medoids # <<>>) =>
        \A a, b \in 1..Len(best_medoids) :
            a # b => Dist(best_medoids[a], best_medoids[b]) >= MinSeparation

\* C2: when fewer than k candidates are left by filter_candidates(),
\* optimize() returns the sentinel cost with an empty medoid set, and
\* neither the initializer nor the local search has run.
C2_FeasibilitySentinel ==
    (pc # "start" /\ Len(valid_candidates) < k) =>
        /\ pc \in {"infeasible", "no_solution"}
        /\ best_medoids = <<>>
        /\ best_cost = DBL_MAX
        /\ init_i = 0
        /\ iterations = 0

\* Some candidates are left, but fewer than k, and optimize() has returned.
C2_Witness ==
    /\ pc = "infeasible"
    /\ valid_candidates # <<>>
    /\ Len(valid_candidates) < k
    /\ k <= Len(points)

\* C3: in the scenario, whatever pair the initializer draws, the local
\* search ends with the medoid set {A, C} and total cost 40.
C3_ScenarioConverges ==
    pc \in {"returned", "printed"} =>
        /\ MedoidSet = {1, 3}
        /\ Len(best_medoids) = 2
        /\ best_cost = 40

\* The run that started from <<D, B>> (initial cost 110) has returned.
C3_Witness ==
    /\ pc = "returned"
    /\ round_start_medoids # <<>>
    /\ initial_cost = 110
    /\ iterations >= 2

\* C4: at the end of every round the best cost is at most the cost at the
\* end of the previous round and at most the initial cost; it is strictly
\* smaller exactly when the round set `improved`; a round without commit
\* leaves the cost and the medoid vector as they were.
C4_MonotonicCost ==
    RoundJustEnded =>
        /\ best_cost <= round_start_cost
        /\ best_cost <= initial_cost
        /\ (best_cost < round_start_cost) <=> improved
        /\ ~improved => (best_cost = round_start_cost
                         /\ best_medoids = round_start_medoids)

\* A second round that committed has just ended.
C4_Witness ==
    /\ RoundJustEnded
    /\ iterations = 2
    /\ improved
    /\ round_start_cost < initial_cost

\* C5 as stated: with at least k candidates, the initializer returns fewer
\* than k medoids only if no k candidates are pairwise separated.
C5_DegradedOnlyWhenInfeasible ==
    (InitJustReturned /\ Len(valid_candidates) >= k /\ Len(best_medoids) < k)
        => ~FeasibleSubsetExists

\* C5 amended: the initializer returns fewer than k medoids only if its
\* greedy extension is stuck: every candidate not chosen is closer than the
\* minimum separation to some chosen medoid, looked up as (candidate, medoid).
C5_DegradedOnlyWhenStuck ==
    (InitJustReturned /\ Len(best_medoids) < k) =>
        \A c \in CandidateSet \ MedoidSet :
            \E m \in MedoidSet : Dist(c, m) < MinSeparation

\* The initializer returned fewer than k medoids although k candidates are
\* pairwise separated.
C5_Witness ==
    /\ InitJustReturned
    /\ Len(best_medoids) < k
    /\ FeasibleSubsetExists

\* C6: during initialization and local search the medoid vector holds
\* pairwise distinct indices, all of them candidates, and at most k of them.
C6_WellFormed ==
    (k >= 1 /\ pc \in {"init_loop", "loop", "trial", "returned", "printed"}) =>
        /\ \A a, b \in 1..Len(best_medoids) :
               a # b => best_medoids[a] # best_medoids[b]
        /\ MedoidSet \subseteq CandidateSet
        /\ MedoidSet \subseteq 1..Len(points)
        /\ Len(best_medoids) <= k

\* A commit has happened in a run where the filter removed some point and
\* the initializer had drawn several medoids.
C6_Witness ==
    /\ pc = "trial"
    /\ improved
    /\ best_medoids # round_start_medoids
    /\ Len(best_medoids) >= 2
    /\ Len(valid_candidates) < Len(points)

\* C7: get_assignments() gives every point of the full point set a position
\* whose medoid is at minimum distance, the earliest such position.
C7_AssignmentNearestEarliest ==
    pc = "printed" =>
        /\ DOMAIN assignments = 1..Len(points)
        /\ \A p \in 1..Len(points) :
               /\ assignments[p] \in 1..Len(best_medoids)
               /\ \A j \in 1..Len(best_medoids) :
                      Dist(p, best_medoids[assignments[p]]) <= Dist(p, best_medoids[j])
               /\ \A j \in 1..(assignments[p] - 1) :
                      Dist(p, best_medoids[j]) > Dist(p, best_medoids[assignments[p]])

\* A point that is no candidate has two medoids at its minimum distance.
C7_Witness ==
    /\ pc = "printed"
    /\ \E p \in 1..Len(points) \ CandidateSet :
           \E j, l \in 1..Len(best_medoids) :
               /\ j < l
               /\ Dist(p, best_medoids[j]) = Dist(p, best_medoids[l])
               /\ \A m \in 1..Len(best_medoids) :
                      Dist(p, best_medoids[j]) <= Dist(p, best_medoids[m])

C10_SwapLocalOptimum ==
    (pc = "returned" /\ ~improved) =>
        /\ best_cost = TotalWeightedCost(MedoidSet)
        /\ \A pos \in 1..Len(best_medoids) :
               \A c \in CandidateSet \ MedoidSet :
                   LET trial == [best_medoids EXCEPT ![pos] = c]
                   IN  ~(/\ GatePasses(trial)
                         /\ TotalWeightedCost(Range(trial)) < best_cost)

\* The search converged after commits, and a cheaper swap exists that only
\* the feasibility gate excludes.
C10_Witness ==
    /\ pc = "returned"
    /\ ~improved
    /\ iterations >= 2
    /\ \E pos \in 1..Len(best_medoids) :
           \E c \in CandidateSet \ MedoidSet :
               LET trial == [best_medoids EXCEPT ![pos] = c]
               IN  /\ ~GatePasses(trial)
                   /\ TotalWeightedCost(Range(trial)) < best_cost

====
